---------------------------- MODULE Spec2Model ----------------------------
(***************************************************************************)
(* Legal Document Analyzer (src/main.py): the upload, analysis, batch and  *)
(* result-retrieval handlers, the deferred persistence task, and the pure  *)
(* helpers they call (json.loads, the reply normalisation, the prompt).    *)
(*                                                                         *)
(* A Python str is a sequence of one-character strings, so that slicing,   *)
(* parsing and glob matching are computed character by character.          *)
(***************************************************************************)
EXTENDS Integers, Sequences, FiniteSets, TLC

VARIABLES
    clock,      \* datetime.utcnow(), in whole seconds
    upload_dir, \* UPLOAD_DIR: file name -> stored bytes
    results_dir,\* RESULTS_DIR: file name -> the characters (chunks) on disk
    tasks,      \* background tasks scheduled and not yet finished
    last,       \* the response of the last handled request
    nreq,       \* number of requests handled so far
    raw_reply,  \* normalisation of one reply: the raw reply text
    normalized, \* normalisation of one reply: what the handlers make of it
    doc_text,   \* prompt construction: the inputs
    prompt,     \* prompt construction: the prompt built
    budget      \* number of requests the clients of this run make

vars == <<clock, upload_dir, results_dir, tasks, last, nreq,
          raw_reply, normalized, doc_text, prompt, budget>>

serverVars == <<clock, upload_dir, results_dir, tasks, last, nreq, budget>>
normVars == <<raw_reply, normalized>>
promptVars == <<doc_text, prompt>>

Min(a, b) == IF a <= b THEN a ELSE b

\* s[:n] of Python
Take(s, n) == SubSeq(s, 1, Min(n, Len(s)))

\* s[n:] of Python
Drop(s, n) == SubSeq(s, Min(n, Len(s)) + 1, Len(s))

\* n copies of character c
Rep(c, n) == [i \in 1..n |-> c]

(***************************************************************************)
(* JSON values, as json.loads builds them.  A dict is a function from its  *)
(* keys (character sequences) to values.                                   *)
(***************************************************************************)
JNull == [t |-> "null", v |-> <<>>]
JTrue == [t |-> "true", v |-> <<>>]
JFalse == [t |-> "false", v |-> <<>>]
JStr(s) == [t |-> "str", v |-> s]
JNum(s) == [t |-> "num", v |-> s]
JList(l) == [t |-> "list", v |-> l]
JDict(d) == [t |-> "dict", v |-> d]

EmptyDict == JDict(<<>>)

\* d[k] = v of a Python dict
Put(d, k, v) == [x \in (DOMAIN d) \cup {k} |-> IF x = k THEN v ELSE d[x]]

\* d.get(k, default) of a Python dict
Get(d, k, default) == IF k \in DOMAIN d.v THEN d.v[k] ELSE default

K_summary == <<"s", "u", "m", "m", "a", "r", "y">>
K_key_findings == <<"k", "e", "y", "_", "f", "i", "n", "d", "i", "n", "g", "s">>
K_risks == <<"r", "i", "s", "k", "s">>
K_recommendations == <<"r", "e", "c", "o", "m", "m", "e", "n", "d", "a", "t", "i", "o", "n", "s">>
K_detailed_analysis == <<"d", "e", "t", "a", "i", "l", "e", "d", "_", "a", "n", "a", "l", "y", "s", "i", "s">>
K_raw_response == <<"r", "a", "w", "_", "r", "e", "s", "p", "o", "n", "s", "e">>

(***************************************************************************)
(* json.loads: the scanner of the standard library, on the characters the  *)
(* model's replies are made of (no backslash, no sign, no fraction).       *)
(***************************************************************************)
Whitespace == {" ", "\t", "\n", "\r"}
Digits == {"0", "1", "2", "3", "4", "5", "6", "7", "8", "9"}

W_null == <<"n", "u", "l", "l">>
W_true == <<"t", "r", "u", "e">>
W_false == <<"f", "a", "l", "s", "e">>

Fail == [ok |-> FALSE, val |-> JNull, nxt |-> 0]
Ok(v, n) == [ok |-> TRUE, val |-> v, nxt |-> n]

\* index of the first character at or after i that is not in S: the index
\* after the run of characters of S starting at i
RunEnd(s, i, S) ==
    LET others == {j \in i..Len(s) : s[j] \notin S}
    IN  IF others # {} THEN CHOOSE j \in others : \A k \in others : j <= k
        ELSE IF i > Len(s) THEN i
        ELSE Len(s) + 1

\* WHITESPACE.match(s, i).end()
SkipWs(s, i) == RunEnd(s, i, Whitespace)

StartsAt(s, i, w) ==
    i + Len(w) - 1 <= Len(s) /\ SubSeq(s, i, i + Len(w) - 1) = w

\* index of the first quote at or after i, 0 when there is none
QuoteAt(s, i) ==
    LET quotes == {j \in i..Len(s) : s[j] = "\""}
    IN  IF quotes = {} THEN 0 ELSE CHOOSE j \in quotes : \A k \in quotes : j <= k

\* the string whose opening quote is at i - 1
ScanString(s, i) ==
    LET q == QuoteAt(s, i)
    IN  IF q = 0 THEN Fail ELSE Ok(JStr(SubSeq(s, i, q - 1)), q + 1)

\* index after the run of digits starting at i
DigitsEnd(s, i) == RunEnd(s, i, Digits)

\* NUMBER_RE's integer part: 0, or a non-zero digit followed by digits
ScanNumber(s, i) ==
    LET e == IF s[i] = "0" THEN i + 1 ELSE DigitsEnd(s, i)
    IN  Ok(JNum(SubSeq(s, i, e - 1)), e)

RECURSIVE ScanOnce(_, _)
RECURSIVE ArrayItems(_, _, _)
RECURSIVE ObjectItems(_, _, _)

\* JSONArray, from the first element on
ArrayItems(s, i, acc) ==
    LET r == ScanOnce(s, i)
    IN  IF ~r.ok THEN Fail
        ELSE LET j == SkipWs(s, r.nxt)
                 acc2 == Append(acc, r.val)
             IN  IF j > Len(s) THEN Fail
                 ELSE IF s[j] = "]" THEN Ok(JList(acc2), j + 1)
                 ELSE IF s[j] # "," THEN Fail
                 ELSE ArrayItems(s, SkipWs(s, j + 1), acc2)

\* JSONArray: i is the index after the opening bracket
JSONArray(s, i) ==
    LET j == SkipWs(s, i)
    IN  IF j <= Len(s) /\ s[j] = "]" THEN Ok(JList(<<>>), j + 1)
        ELSE ArrayItems(s, j, <<>>)

\* JSONObject, from a key on: i is the index after the key's opening quote
ObjectItems(s, i, acc) ==
    LET k == ScanString(s, i)
    IN  IF ~k.ok THEN Fail
        ELSE LET c == SkipWs(s, k.nxt)
             IN  IF c > Len(s) \/ s[c] # ":" THEN Fail
                 ELSE LET r == ScanOnce(s, SkipWs(s, c + 1))
                      IN  IF ~r.ok THEN Fail
                          ELSE LET e == SkipWs(s, r.nxt)
                                   acc2 == Put(acc, k.val.v, r.val)
                               IN  IF e > Len(s) THEN Fail
                                   ELSE IF s[e] = "}" THEN Ok(JDict(acc2), e + 1)
                                   ELSE IF s[e] # "," THEN Fail
                                   ELSE LET q == SkipWs(s, e + 1)
                                        IN  IF q > Len(s) \/ s[q] # "\"" THEN Fail
                                            ELSE ObjectItems(s, q + 1, acc2)

\* JSONObject: i is the index after the opening brace
JSONObject(s, i) ==
    LET j == SkipWs(s, i)
    IN  IF j > Len(s) THEN Fail
        ELSE IF s[j] = "}" THEN Ok(EmptyDict, j + 1)
        ELSE IF s[j] # "\"" THEN Fail
        ELSE ObjectItems(s, j + 1, <<>>)

\* scan_once: the value starting at index i
ScanOnce(s, i) ==
    IF i > Len(s) THEN Fail
    ELSE IF s[i] = "\"" THEN ScanString(s, i + 1)
    ELSE IF s[i] = "{" THEN JSONObject(s, i + 1)
    ELSE IF s[i] = "[" THEN JSONArray(s, i + 1)
    ELSE IF StartsAt(s, i, W_null) THEN Ok(JNull, i + 4)
    ELSE IF StartsAt(s, i, W_true) THEN Ok(JTrue, i + 4)
    ELSE IF StartsAt(s, i, W_false) THEN Ok(JFalse, i + 5)
    ELSE IF s[i] \in Digits THEN ScanNumber(s, i)
    ELSE Fail

\* json.loads(s): one value, white space around it, nothing after it;
\* ok = FALSE is json.JSONDecodeError
LoadsJSON(s) ==
    LET r == ScanOnce(s, SkipWs(s, 1))
    IN  IF r.ok /\ SkipWs(s, r.nxt) = Len(s) + 1 THEN r ELSE Fail

(***************************************************************************)
(* The reply normalisation of the analysis handlers.                       *)
(***************************************************************************)
SummaryLimit == 200

\* the except json.JSONDecodeError branch: a summary-only dict
\* a fallback that keeps the whole reply as the summary
FallbackUncut(raw) ==
    JDict((K_summary :> JStr(raw))
          @@ (K_detailed_analysis :> JDict(K_raw_response :> JStr(raw))))

\* the except branch of the parse: lines 321-325
Fallback(raw) ==
    JDict((K_summary :> JStr(Take(raw, SummaryLimit)))
          @@ (K_detailed_analysis :> JDict(K_raw_response :> JStr(raw))))

\* try: json.loads(analysis_result) except json.JSONDecodeError: fallback
ParseReply(raw) ==
    LET r == LoadsJSON(raw)
    IN  IF r.ok THEN r.val ELSE Fallback(raw)

(***************************************************************************)
(* AnalysisResponse(...): pydantic's validation of the five content        *)
(* fields.  lax = TRUE is a build whose pydantic coerces (1.x: numbers and *)
(* booleans become str, dict(v) is tried on a non-dict), lax = FALSE one   *)
(* that does not (2.x); the source pins neither.                           *)
(***************************************************************************)
Valid(v) == [ok |-> TRUE, val |-> v]
Invalid == [ok |-> FALSE, val |-> JNull]

\* str(v) of a number or a boolean
PyStr(v) ==
    IF v.t = "num" THEN v.v
    ELSE IF v.t = "true" THEN <<"T", "r", "u", "e">>
    ELSE IF v.t = "false" THEN <<"F", "a", "l", "s", "e">>
    ELSE IF v.t = "null" THEN <<"N", "o", "n", "e">>
    ELSE v.v

\* a field of type str
ValidateStr(v, lax) ==
    IF v.t = "str" THEN Valid(v)
    ELSE IF lax /\ v.t \in {"num", "true", "false"} THEN Valid(JStr(PyStr(v)))
    ELSE Invalid

\* a field of type Optional[str]
ValidateOptStr(v, lax) ==
    IF v.t = "null" THEN Valid(v) ELSE ValidateStr(v, lax)

\* a field of type Optional[List[str]]
ValidateOptStrList(v, lax) ==
    IF v.t = "null" THEN Valid(v)
    ELSE IF v.t # "list" THEN Invalid
    ELSE IF \E i \in DOMAIN v.v : ~ValidateStr(v.v[i], lax).ok THEN Invalid
    ELSE Valid(JList([i \in DOMAIN v.v |-> ValidateStr(v.v[i], lax).val]))

\* whether dict(v) accepts item x of the iterable v: a sequence of two
\* elements whose first is hashable
IsPair(x) ==
    \/ x.t = "str" /\ Len(x.v) = 2
    \/ x.t = "list" /\ Len(x.v) = 2 /\ x.v[1].t \notin {"list", "dict"}

PairKey(x) == IF x.t = "str" THEN <<x.v[1]>> ELSE PyStr(x.v[1])
PairVal(x) == IF x.t = "str" THEN JStr(<<x.v[2]>>) ELSE x.v[2]

\* dict(items): later pairs override earlier ones (keys shown by their str())
RECURSIVE DictOf(_, _)
DictOf(items, acc) ==
    IF items = <<>> THEN acc
    ELSE DictOf(Tail(items), Put(acc, PairKey(Head(items)), PairVal(Head(items))))

\* a field of type Optional[dict]
ValidateOptDict(v, lax) ==
    IF v.t \in {"null", "dict"} THEN Valid(v)
    ELSE IF ~lax THEN Invalid
    ELSE IF v.t = "str" /\ v.v = <<>> THEN Valid(EmptyDict)
    ELSE IF v.t = "list" /\ \A i \in DOMAIN v.v : IsPair(v.v[i])
         THEN Valid(JDict(DictOf(v.v, <<>>)))
    ELSE Invalid

\* An HTTPException, and a 200 response
HTTPError(code, detail) == [status |-> code, detail |-> detail, body |-> <<>>]
HTTPOk(body) == [status |-> 200, detail |-> <<>>, body |-> body]

\* datetime.utcnow().isoformat()
IsoFormat(now) == <<"T", now>>

\* Lines 318-337 of analyze_contract (and of its five siblings): parse the
\* reply, read the five keys, build the AnalysisResponse.  A reply that is
\* JSON but no dict has no .get (AttributeError), a field of the wrong type
\* fails validation; both reach the handler's except Exception.
Respond(document_id, analysis_type, data, now, lax) ==
    IF data.t # "dict"
    THEN HTTPError(500, <<"analysis failed", "AttributeError">>)
    ELSE LET summary == ValidateOptStr(Get(data, K_summary, JNull), lax)
             key_findings ==
                 ValidateOptStrList(Get(data, K_key_findings, JList(<<>>)), lax)
             risks == ValidateOptStrList(Get(data, K_risks, JList(<<>>)), lax)
             recommendations ==
                 ValidateOptStrList(Get(data, K_recommendations, JList(<<>>)), lax)
             detailed_analysis ==
                 ValidateOptDict(Get(data, K_detailed_analysis, EmptyDict), lax)
         IN  IF summary.ok /\ key_findings.ok /\ risks.ok
                /\ recommendations.ok /\ detailed_analysis.ok
             THEN HTTPOk([document_id |-> document_id,
                          analysis_type |-> analysis_type,
                          status |-> "completed",
                          timestamp |-> IsoFormat(now),
                          summary |-> summary.val,
                          key_findings |-> key_findings.val,
                          risks |-> risks.val,
                          recommendations |-> recommendations.val,
                          detailed_analysis |-> detailed_analysis.val])
             ELSE HTTPError(500, <<"analysis failed", "ValidationError">>)

BuildResponse(document_id, analysis_type, raw, now, lax) ==
    Respond(document_id, analysis_type, ParseReply(raw), now, lax)

\* Lines 694-700 of batch_analysis: the entry stored for one category
BatchEntry(raw) == ParseReply(raw)

(***************************************************************************)
(* The prompt.  A fixed piece of the template is one element of the        *)
(* sequence; the document text is embedded character by character.         *)
(***************************************************************************)
TextBudget == 5000

ValidTypes == {"contract", "compliance", "ip", "corporate", "labor", "tax"}

\* the first argument each single-category handler gives generate_analysis_prompt
PromptLabel ==
    [contract |-> "contract", compliance |-> "compliance",
     ip |-> "intellectual property", corporate |-> "corporate governance",
     labor |-> "labor law", tax |-> "tax law"]

\* the default focus areas of each category (the handlers' "or [...]" and
\* focus_areas_map of batch_analysis hold the same lists)
DefaultFocus ==
    [contract |-> <<"terms", "liability", "payment", "termination">>,
     compliance |-> <<"regulations", "standards", "requirements">>,
     ip |-> <<"patents", "trademarks", "copyrights", "licensing">>,
     corporate |-> <<"governance", "ownership", "structure", "compliance">>,
     labor |-> <<"employment", "benefits", "disputes", "regulations">>,
     tax |-> <<"deductions", "credits", "liabilities", "planning">>]

\* ', '.join(items)
RECURSIVE Join(_)
Join(items) ==
    IF items = <<>> THEN <<>>
    ELSE IF Len(items) = 1 THEN <<items[1]>>
    ELSE <<items[1], ", ">> \o Join(Tail(items))

PromptHead(analysis_type, focus_areas) ==
    <<"Analyze the following legal document with focus on ", analysis_type,
      " aspects.\nFocus areas: ">> \o Join(focus_areas) \o <<"\n\nDocument text:\n">>

PromptTail ==
    <<"\n\nPlease provide:\n1. Executive Summary (2-3 sentences)\n2. Key Findings (5-7 bullet points)\n3. Risk Assessment (identify major risks)\n4. Recommendations (actionable recommendations)\n5. Detailed Analysis by focus area\n\nFormat your response as JSON with keys: summary, key_findings, risks, recommendations, detailed_analysis">>

\* a prompt that embeds the whole text
GeneratePromptWhole(analysis_type, document_text, focus_areas) ==
    PromptHead(analysis_type, focus_areas) \o document_text \o PromptTail

\* generate_analysis_prompt
GeneratePrompt(analysis_type, document_text, focus_areas) ==
    PromptHead(analysis_type, focus_areas)
        \o Take(document_text, TextBudget) \o PromptTail

(***************************************************************************)
(* File names: Path(...).suffix, str.lower, str.split, strftime, glob.     *)
(***************************************************************************)
UpperToLower ==
    [A |-> "a", B |-> "b", C |-> "c", D |-> "d", E |-> "e", F |-> "f", G |-> "g",
     H |-> "h", I |-> "i", J |-> "j", K |-> "k", L |-> "l", M |-> "m", N |-> "n",
     O |-> "o", P |-> "p", Q |-> "q", R |-> "r", S |-> "s", T |-> "t", U |-> "u",
     V |-> "v", W |-> "w", X |-> "x", Y |-> "y", Z |-> "z"]

\* s.lower()
Lower(s) ==
    [i \in DOMAIN s |->
        IF s[i] \in DOMAIN UpperToLower THEN UpperToLower[s[i]] ELSE s[i]]

\* s.rfind(c), 1-based; 0 when c is not in s
RECURSIVE LastIndex(_, _)
LastIndex(s, c) ==
    IF s = <<>> THEN 0
    ELSE IF s[Len(s)] = c THEN Len(s)
    ELSE LastIndex(SubSeq(s, 1, Len(s) - 1), c)

\* s.find(c), 1-based; 0 when c is not in s
RECURSIVE FirstIndex(_, _, _)
FirstIndex(s, c, i) ==
    IF i > Len(s) THEN 0
    ELSE IF s[i] = c THEN i
    ELSE FirstIndex(s, c, i + 1)

\* Path(p).name: the last component of the path
PathName(p) == SubSeq(p, LastIndex(p, "/") + 1, Len(p))

\* Path(p).suffix: from the last dot of the name on, unless the dot is the
\* first or the last character of the name
Suffix(p) ==
    LET name == PathName(p)
        i == LastIndex(name, ".")
    IN  IF 1 < i /\ i < Len(name) THEN SubSeq(name, i, Len(name)) ELSE <<>>

\* s.split('.')[0]
SplitFirst(s) ==
    LET i == FirstIndex(s, ".", 1)
    IN  IF i = 0 THEN s ELSE SubSeq(s, 1, i - 1)

\* strftime('%Y%m%d_%H%M%S'): "T" is the date, hour and minute, which the
\* model's clock does not leave; then the two digits of the second
StrfTime(now) ==
    <<"T", ToString(now \div 10), ToString(now % 10)>>

\* fnmatch: * matches any run of characters, ? any one character
RECURSIVE FnMatch(_, _)
FnMatch(pat, name) ==
    IF pat = <<>> THEN name = <<>>
    ELSE IF Head(pat) = "*"
         THEN FnMatch(Tail(pat), name)
              \/ (name # <<>> /\ FnMatch(pat, Tail(name)))
    ELSE IF name = <<>> THEN FALSE
    ELSE (Head(pat) = "?" \/ Head(pat) = Head(name))
         /\ FnMatch(Tail(pat), Tail(name))

\* UPLOAD_DIR.glob(f"{document_id}.*"): every stored file the pattern matches
Glob(dir, document_id) ==
    {n \in DOMAIN dir : FnMatch(document_id \o <<".", "*">>, n)}

(***************************************************************************)
(* Upload.                                                                 *)
(***************************************************************************)
\* allowed_types with an entry too many
AllowedTypesAndExe ==
    {<<".", "p", "d", "f">>, <<".", "d", "o", "c", "x">>, <<".", "d", "o", "c">>,
     <<".", "t", "x", "t">>, <<".", "e", "x", "e">>}

\* allowed_types
AllowedTypes == {<<".", "p", "d", "f">>, <<".", "d", "o", "c", "x">>, <<".", "d", "o", "c">>, <<".", "t", "x", "t">>}

\* What one request left behind: the response, the prompts it sent to the
\* inference client, the number of text extractions it ran, and whether it
\* scheduled a persistence task.
NoResponse ==
    [op |-> "none", args |-> <<>>, status |-> 0, detail |-> <<>>, body |-> <<>>,
     calls |-> <<>>, extracts |-> 0, scheduled |-> FALSE]

Outcome(resp, calls, extracts, scheduled) ==
    [resp |-> resp, calls |-> calls, extracts |-> extracts, scheduled |-> scheduled]

\* upload_document, up to the write: the response, and the file to write.
\* started is the time the identifier is made at, before the handler awaits
\* the upload's bytes; now is the time the bytes are there.
UploadResult(filename, content, started, now) ==
    LET file_ext == Lower(Suffix(filename))
        document_id == StrfTime(started) \o <<"_">> \o SplitFirst(filename)
        file_name == document_id \o file_ext
    IN  IF file_ext \notin AllowedTypes
        THEN [resp |-> HTTPError(400, <<"Unsupported file type. Allowed">>),
              write |-> FALSE, name |-> <<>>]
        ELSE IF FirstIndex(file_name, "/", 1) # 0
        \* open() of a path below a directory nobody created
        THEN [resp |-> HTTPError(500, <<"Upload failed: ", "FileNotFoundError">>),
              write |-> FALSE, name |-> <<>>]
        ELSE [resp |-> HTTPOk([document_id |-> document_id,
                               filename |-> filename,
                               file_type |-> Drop(file_ext, 1),
                               upload_time |-> IsoFormat(now),
                               file_size |-> content.size,
                               status |-> "uploaded"]),
              write |-> TRUE, name |-> file_name]

(***************************************************************************)
(* Text extraction.  The stored bytes are what they are (kind), whatever   *)
(* the extension they were uploaded under and whatever tag the request     *)
(* declares.                                                               *)
(***************************************************************************)
Extracted(text) == [ok |-> TRUE, text |-> text, err |-> HTTPError(0, <<>>)]
\* an extraction failure reported as a server error
ExtractErrorAsServerError(detail) ==
    [ok |-> FALSE, text |-> <<>>, err |-> HTTPError(500, detail)]

\* raise HTTPException(status_code=400, detail=...) of the extraction functions
ExtractError(detail) == [ok |-> FALSE, text |-> <<>>, err |-> HTTPError(400, detail)]

\* extract_text_from_pdf
ExtractTextFromPdf(content) ==
    IF content.kind = "pdf" THEN Extracted(content.text)
    ELSE ExtractError(<<"Error reading PDF: ", "PdfReadError">>)

\* extract_text_from_docx
ExtractTextFromDocx(content) ==
    IF content.kind = "docx" THEN Extracted(content.text)
    ELSE ExtractError(<<"Error reading DOCX: ", "PackageNotFoundError">>)

\* extract_text_from_txt
ExtractTextFromTxt(content) ==
    IF content.utf8 THEN Extracted(content.decoded)
    ELSE ExtractError(<<"Error reading TXT: ", "UnicodeDecodeError">>)

\* extract_document_text
ExtractDocumentText(content, file_type) ==
    LET tag == Lower(file_type)
    IN  IF tag = <<"p", "d", "f">> THEN ExtractTextFromPdf(content)
        ELSE IF tag \in {<<"d", "o", "c", "x">>, <<"d", "o", "c">>}
             THEN ExtractTextFromDocx(content)
        ELSE IF tag = <<"t", "x", "t">> THEN ExtractTextFromTxt(content)
        ELSE ExtractError(<<"Unsupported file type: ", file_type>>)

(***************************************************************************)
(* The inference client.  What the service answers is not the program's    *)
(* to decide: api is the outcome of the call, a reply text or a failure.   *)
(***************************************************************************)
ApiReply(text) == [ok |-> TRUE, text |-> text]
ApiFailure == [ok |-> FALSE, text |-> <<>>]

\* call_openai_api's except branch
OpenAIError == HTTPError(500, <<"OpenAI API error: ", "APIConnectionError">>)

NotFound == HTTPError(404, <<"Document not found">>)

(***************************************************************************)
(* The six single-category handlers: analyze_contract, analyze_compliance, *)
(* analyze_ip, analyze_corporate, analyze_labor, analyze_tax differ in the *)
(* category, the prompt label and the default focus areas only.            *)
(* matches is the glob's result and file_path the match next() returns.    *)
(***************************************************************************)
Completed(r, calls) == Outcome(r, calls, 1, r.status = 200)

AnalyzeResult(category, document_id, file_type, focus_areas, matches, file_path, content, api, now, lax) ==
    IF matches = {} THEN Outcome(NotFound, <<>>, 0, FALSE)
    ELSE LET x == ExtractDocumentText(content, file_type)
         IN  IF ~x.ok THEN Outcome(x.err, <<>>, 1, FALSE)
             ELSE LET focus == IF focus_areas = <<>> THEN DefaultFocus[category]
                                                      ELSE focus_areas
                      p == GeneratePrompt(PromptLabel[category], x.text, focus)
                  IN  IF ~api.ok THEN Outcome(OpenAIError, <<p>>, 1, FALSE)
                      ELSE Completed(BuildResponse(document_id, category,
                                                   api.text, now, lax), <<p>>)

(***************************************************************************)
(* batch_analysis.  apis[i] is the outcome of the i-th inference call.     *)
(***************************************************************************)
BatchSuffix == <<"_", "b", "a", "t", "c", "h">>

\* the least element of a non-empty set of numbers
Least(S) == CHOOSE k \in S : \A j \in S : k <= j

\* the greatest element of a non-empty set of numbers
Greatest(S) == CHOOSE k \in S : \A j \in S : k >= j

\* a validation that stops at the first name it does not know
FirstInvalidType(analysis_types) ==
    LET bad == {i \in DOMAIN analysis_types : analysis_types[i] \notin ValidTypes}
    IN  IF bad = {} THEN {} ELSE {analysis_types[Least(bad)]}

\* set(analysis_types) - valid_types
InvalidTypes(analysis_types) ==
    {analysis_types[i] : i \in DOMAIN analysis_types} \ ValidTypes

BatchResult(document_id, file_type, analysis_types, matches, content, apis, now) ==
    LET n == Len(analysis_types)
        requested == {analysis_types[i] : i \in 1..n}
        invalid_types == InvalidTypes(analysis_types)
    IN  IF matches = {} THEN Outcome(NotFound, <<>>, 0, FALSE)
        ELSE IF invalid_types # {}
        THEN Outcome(HTTPError(400, <<"Invalid analysis types: ", invalid_types>>),
                     <<>>, 0, FALSE)
        ELSE LET x == ExtractDocumentText(content, file_type)
             IN  IF ~x.ok THEN Outcome(x.err, <<>>, 1, FALSE)
                 ELSE LET prompts ==
                              [i \in 1..n |->
                                  GeneratePrompt(analysis_types[i], x.text,
                                                 DefaultFocus[analysis_types[i]])]
                          failed == {i \in 1..n : ~apis[i].ok}
                          \* results[analysis_type] = ...: a later entry of
                          \* the same category replaces the earlier one
                          results ==
                              [t \in requested |->
                                  BatchEntry(apis[Greatest({i \in 1..n :
                                      analysis_types[i] = t})].text)]
                      IN  IF failed # {}
                          THEN Outcome(OpenAIError,
                                       SubSeq(prompts, 1, Least(failed)), 1, FALSE)
                          ELSE Outcome(HTTPOk([document_id |-> document_id,
                                               analysis_type |-> "batch",
                                               status |-> "completed",
                                               timestamp |-> IsoFormat(now),
                                               analyses |-> results,
                                               analysis_count |-> n]),
                                       prompts, 1, TRUE)

(***************************************************************************)
(* The Result Store.  A file is the sequence of chunks json.dump has       *)
(* written to it: the opening brace, one chunk per item, the closing       *)
(* brace.                                                                  *)
(***************************************************************************)
ResultSuffix == <<"_analysis.json">>

\* RESULTS_DIR / f"{document_id}_analysis.json"
ResultFile(document_id) == document_id \o ResultSuffix

SingleFields ==
    <<"document_id", "analysis_type", "status", "timestamp", "summary",
      "key_findings", "risks", "recommendations", "detailed_analysis">>

BatchFields ==
    <<"document_id", "analysis_type", "status", "timestamp", "analyses",
      "analysis_count">>

Chunk(k, v) == [k |-> k, v |-> v]
OpenBrace == Chunk("{", <<>>)
CloseBrace == Chunk("}", <<>>)
\* a hole left by a write beyond the end of a file
Nul == Chunk("NUL", <<>>)

\* json.dump(analysis_data, f, indent=2): the chunks written, in order
DumpJSON(data) ==
    LET fields == IF "analyses" \in DOMAIN data THEN BatchFields ELSE SingleFields
    IN  <<OpenBrace>> \o [i \in 1..Len(fields) |-> Chunk(fields[i], data[fields[i]])]
            \o <<CloseBrace>>

\* json.load(f): the dict the chunks spell, when they spell one
LoadJSONFile(chunks) ==
    LET n == Len(chunks)
    IN  IF /\ n >= 2
           /\ chunks[1].k = OpenBrace.k
           /\ chunks[n].k = CloseBrace.k
           /\ \A i \in 2..(n - 1) : chunks[i].k \notin {"{", "}", "NUL"}
        THEN [ok |-> TRUE,
              val |-> [k \in {chunks[i].k : i \in 2..(n - 1)} |->
                          chunks[Greatest({i \in 2..(n - 1) : chunks[i].k = k})].v]]
        ELSE [ok |-> FALSE, val |-> <<>>]

\* f.write at offset pos of a file holding `file`
WriteAt(file, pos, chunks) ==
    LET n == IF Len(file) > pos + Len(chunks) THEN Len(file) ELSE pos + Len(chunks)
    IN  [i \in 1..n |->
            IF i > pos /\ i <= pos + Len(chunks) THEN chunks[i - pos]
            ELSE IF i <= Len(file) THEN file[i]
            ELSE Nul]

\* background_tasks.add_task(save_analysis_result, key, data); pos is the
\* file offset of the task's descriptor, -1 before it has opened the file
NewTask(key, data) == [key |-> key, data |-> data, pos |-> -1]

\* get_analysis_results
GetResult(dir, document_id) ==
    LET result_file == ResultFile(document_id)
    IN  IF result_file \notin DOMAIN dir
        THEN HTTPError(404, <<"Analysis results not found">>)
        ELSE LET r == LoadJSONFile(dir[result_file])
             IN  IF r.ok THEN HTTPOk(r.val)
                 ELSE HTTPError(500, <<"Error retrieving results: ", "JSONDecodeError">>)

(***************************************************************************)
(* Bounds and the inputs the requests are drawn from.                      *)
(***************************************************************************)
MaxReq == 2
MaxClock == 1

\* stored bytes: a UTF-8 text file, and a PDF (binary: not UTF-8)
TxtFile ==
    [kind |-> "text", utf8 |-> TRUE, text |-> <<>>, decoded |-> <<"h", "i">>,
     size |-> 2]
PdfFile ==
    [kind |-> "pdf", utf8 |-> FALSE, text |-> <<"p">>, decoded |-> <<>>,
     size |-> 9]
NoFile ==
    [kind |-> "none", utf8 |-> FALSE, text |-> <<>>, decoded |-> <<>>, size |-> 0]

\* the uploads a client makes: a file name and the bytes sent under it
UploadInputs ==
    {<<<<"a", ".", "t", "x", "t">>, TxtFile>>, <<<<"a", ".", "P", "D", "F">>, PdfFile>>, <<<<"b", ".", "e", "x", "e">>, TxtFile>>,
     <<<<".", "t", "x", "t">>, TxtFile>>, <<<<"d", "/", "a", ".", "t", "x", "t">>, TxtFile>>}

FileTypes == {<<"t", "x", "t">>, <<"P", "D", "F">>, <<"x", "y", "z">>}

\* request.focus_areas: <<>> is None or [], both falsy
FocusInputs == {<<>>, <<"fees">>}

\* replies of the inference service: plain prose and a JSON object
ReplyProse == <<"h", "i">>
ReplyObject == <<"{", "\"", "s", "u", "m", "m", "a", "r", "y", "\"", ":", "\"", "o", "k", "\"", "}">>
ServerReplies == {ReplyProse, ReplyObject}

ApiOutcomes == {ApiReply(r) : r \in ServerReplies} \cup {ApiFailure}

\* the single-category endpoints the requests go to (all six run the same
\* code on their own row of PromptLabel and DefaultFocus)
Endpoints == {"ip"}

\* the category lists of the batch requests: empty, valid ones (one with a
\* repeated name), and ones with one or two names outside ValidTypes
BatchLists ==
    {<<>>, <<"contract">>, <<"contract", "tax">>, <<"tax", "tax">>,
     <<"nonsense">>, <<"contract", "nonsense">>, <<"bogus", "nonsense">>,
     <<"nonsense", "contract">>}

\* whether a request gets as far as the inference client: a file was found
\* and its text extracted
Asked(matches, content, file_type) ==
    matches # {} /\ ExtractDocumentText(content, file_type).ok

\* the service answers only when it is asked: the outcome of the one call of
\* a single-category request
SingleApis(asked) == IF asked THEN ApiOutcomes ELSE {ApiFailure}

\* the outcomes of the calls of one batch request: none is made when a name
\* is invalid, and none after the first failure
BatchApis(analysis_types, asked) ==
    IF asked /\ \A i \in DOMAIN analysis_types : analysis_types[i] \in ValidTypes
    THEN {apis \in [1..Len(analysis_types) -> ApiOutcomes] :
             \A i, j \in 1..Len(analysis_types) :
                 (i < j /\ ~apis[i].ok) => ~apis[j].ok}
    ELSE {[i \in 1..Len(analysis_types) |-> ApiFailure]}

\* the document_id a stored file was given: its name without the extension
DocIdOf(file_name) == SubSeq(file_name, 1, LastIndex(file_name, ".") - 1)

StoredIds == {DocIdOf(n) : n \in DOMAIN upload_dir}

\* identifiers a client may send that no upload returned
ProbeIds == {<<"*">>, <<"x">>}

IdInputs == StoredIds \cup ProbeIds

(***************************************************************************)
(* The state machine.  The handlers are async def.  The analysis and the    *)
(* retrieval handlers await nothing, so each runs to completion on the     *)
(* event loop: one action each.  upload_document awaits once (file.read),  *)
(* after it has made the identifier and before it touches the disk: its    *)
(* action is the part after the await, with the identifier made at some    *)
(* earlier time.  save_analysis_result is a plain def, which the framework *)
(* runs in a worker thread after the response is sent: its open, buffered  *)
(* writes and close interleave with the handlers and with other tasks.     *)
(***************************************************************************)
\* the server after start-up: both directories exist and are empty (lines
\* 39-42), nothing is scheduled, no request has been handled
Started ==
    /\ clock = 0
    /\ upload_dir = <<>>
    /\ results_dir = <<>>
    /\ tasks = <<>>
    /\ last = NoResponse
    /\ nreq = 0

NoReply ==
    /\ raw_reply = <<>>
    /\ normalized = [done |-> FALSE]

NoPrompt ==
    /\ doc_text = [analysis_type |-> "", text |-> <<>>, focus_areas |-> <<>>]
    /\ prompt = [done |-> FALSE]

Init ==
    /\ Started
    /\ NoReply
    /\ NoPrompt
    /\ budget = MaxReq

Responded(op, args, o) ==
    [op |-> op, args |-> args, status |-> o.resp.status, detail |-> o.resp.detail,
     body |-> o.resp.body, calls |-> o.calls, extracts |-> o.extracts,
     scheduled |-> o.scheduled]

\* the clock advances
Tick ==
    /\ clock < MaxClock
    /\ clock' = clock + 1
    /\ UNCHANGED <<upload_dir, results_dir, tasks, last, nreq, normVars, promptVars, budget>>

\* POST /api/v1/upload
Upload(filename, content) ==
    /\ nreq < budget
    /\ \E started \in 0..clock :
          LET u == UploadResult(filename, content, started, clock)
          IN  /\ upload_dir' = IF u.write THEN Put(upload_dir, u.name, content)
                                          ELSE upload_dir
              /\ last' = Responded("upload", [filename |-> filename],
                                   Outcome(u.resp, <<>>, 0, FALSE))
    /\ nreq' = nreq + 1
    /\ UNCHANGED <<clock, results_dir, tasks, normVars, promptVars, budget>>

\* a handler that queues the write before it knows how the request ends
FinishQueuedFirst(op, args, key, o) ==
    /\ last' = Responded(op, args, o)
    /\ tasks' = Put(tasks, nreq + 1, NewTask(key, o.resp.body))

\* the response is sent, then background_tasks runs what add_task queued
Finish(op, args, key, o) ==
    /\ last' = Responded(op, args, o)
    /\ tasks' = IF o.scheduled THEN Put(tasks, nreq + 1, NewTask(key, o.resp.body))
                               ELSE tasks

\* POST /api/v1/analyze/<category>
Analyze(category, document_id, file_type, focus_areas) ==
    /\ nreq < budget
    /\ LET matches == Glob(upload_dir, document_id)
       IN  \E file_path \in (IF matches = {} THEN {<<>>} ELSE matches) :
              LET content == IF matches = {} THEN NoFile ELSE upload_dir[file_path]
              IN  \E api \in SingleApis(Asked(matches, content, file_type)) :
                  \E lax \in (IF api.ok THEN BOOLEAN ELSE {FALSE}) :
                     Finish("analyze",
                            [category |-> category, document_id |-> document_id,
                             apis |-> <<api>>],
                            document_id,
                            AnalyzeResult(category, document_id, file_type,
                                          focus_areas, matches, file_path,
                                          content, api, clock, lax))
    /\ nreq' = nreq + 1
    /\ UNCHANGED <<clock, upload_dir, results_dir, normVars, promptVars, budget>>

\* POST /api/v1/analyze/batch
Batch(document_id, file_type, analysis_types) ==
    /\ nreq < budget
    /\ LET matches == Glob(upload_dir, document_id)
       IN  \E file_path \in (IF matches = {} THEN {<<>>} ELSE matches) :
              LET content == IF matches = {} THEN NoFile ELSE upload_dir[file_path]
              IN  \E apis \in BatchApis(analysis_types,
                                        Asked(matches, content, file_type)) :
                     Finish("batch",
                            [analysis_types |-> analysis_types,
                             document_id |-> document_id, apis |-> apis],
                            document_id \o BatchSuffix,
                            BatchResult(document_id, file_type, analysis_types,
                                        matches, content, apis, clock))
    /\ nreq' = nreq + 1
    /\ UNCHANGED <<clock, upload_dir, results_dir, normVars, promptVars, budget>>

\* GET /api/v1/results/{document_id}
GetResults(document_id) ==
    /\ nreq < budget
    /\ last' = Responded("results", [document_id |-> document_id],
                         Outcome(GetResult(results_dir, document_id), <<>>, 0, FALSE))
    /\ nreq' = nreq + 1
    /\ UNCHANGED <<clock, upload_dir, results_dir, tasks, normVars, promptVars, budget>>

\* save_analysis_result: open(result_file, 'w') creates or truncates the file
SaveOpen(id) ==
    /\ tasks[id].pos = -1
    /\ results_dir' = Put(results_dir, ResultFile(tasks[id].key), <<>>)
    /\ tasks' = [tasks EXCEPT ![id].pos = 0]
    /\ UNCHANGED <<clock, upload_dir, last, nreq, normVars, promptVars, budget>>

\* chunks a full buffer holds (io.DEFAULT_BUFFER_SIZE, in chunks)
BufferChunks == 6

\* save_analysis_result: json.dump has filled the buffer, which is written out
SaveFlush(id) ==
    LET task == tasks[id]
        chunks == DumpJSON(task.data)
        name == ResultFile(task.key)
    IN  /\ task.pos >= 0
        /\ Len(chunks) - task.pos > BufferChunks
        /\ results_dir' =
               [results_dir EXCEPT ![name] =
                   WriteAt(@, task.pos, SubSeq(chunks, task.pos + 1,
                                               task.pos + BufferChunks))]
        /\ tasks' = [tasks EXCEPT ![id].pos = task.pos + BufferChunks]
        /\ UNCHANGED <<clock, upload_dir, last, nreq, normVars, promptVars, budget>>

\* save_analysis_result: leaving the with block writes what is buffered and
\* closes the file; the task is done.  How many bytes a chunk has is not
\* modelled, so what is left may fit the buffer whatever was flushed before.
SaveClose(id) ==
    LET task == tasks[id]
        chunks == DumpJSON(task.data)
        name == ResultFile(task.key)
    IN  /\ task.pos >= 0
        /\ results_dir' =
               [results_dir EXCEPT ![name] =
                   WriteAt(@, task.pos, SubSeq(chunks, task.pos + 1, Len(chunks)))]
        /\ tasks' = [i \in (DOMAIN tasks) \ {id} |-> tasks[i]]
        /\ UNCHANGED <<clock, upload_dir, last, nreq, normVars, promptVars, budget>>

Next ==
    \/ Tick
    \/ \E u \in UploadInputs : Upload(u[1], u[2])
    \/ \E category \in Endpoints, document_id \in IdInputs, file_type \in FileTypes,
          focus_areas \in FocusInputs :
          Analyze(category, document_id, file_type, focus_areas)
    \/ \E document_id \in IdInputs, file_type \in FileTypes,
          analysis_types \in BatchLists :
          Batch(document_id, file_type, analysis_types)
    \/ \E document_id \in IdInputs \cup {i \o BatchSuffix : i \in IdInputs} :
          GetResults(document_id)
    \/ \E id \in DOMAIN tasks : SaveOpen(id)
    \/ \E id \in DOMAIN tasks : SaveFlush(id)
    \/ \E id \in DOMAIN tasks : SaveClose(id)

Spec == Init /\ [][Next]_vars

(***************************************************************************)
(* The same program under longer runs of fewer kinds of request: one       *)
(* uploaded text file, analysed under its own identifier and tag, so that  *)
(* two analyses of one document and their persistence tasks interleave.    *)
(***************************************************************************)
MaxStoreReq == 3

StoreUpload == <<<<"a", ".", "t", "x", "t">>, TxtFile>>
StoreFileType == <<"t", "x", "t">>
StoreBatchList == <<"contract">>
StoreEndpoints == {"contract", "ip"}

InitStore ==
    /\ Started
    /\ NoReply
    /\ NoPrompt
    /\ budget = MaxStoreReq

NextStore ==
    \/ Tick
    \/ Upload(StoreUpload[1], StoreUpload[2])
    \/ \E category \in StoreEndpoints, document_id \in StoredIds :
          Analyze(category, document_id, StoreFileType, <<>>)
    \/ \E document_id \in StoredIds :
          Batch(document_id, StoreFileType, StoreBatchList)
    \/ \E document_id \in StoredIds \cup {i \o BatchSuffix : i \in StoredIds} :
          GetResults(document_id)
    \/ \E id \in DOMAIN tasks : SaveOpen(id)
    \/ \E id \in DOMAIN tasks : SaveFlush(id)
    \/ \E id \in DOMAIN tasks : SaveClose(id)

SpecStore == InitStore /\ [][NextStore]_vars

\* save_analysis_result of task id: the steps the task cannot skip
Save(id) == id \in DOMAIN tasks /\ (SaveOpen(id) \/ SaveClose(id))

\* The worker threads run: a task that was added is started, and a task
\* that has opened its file leaves the with block.
SpecStoreFair == SpecStore /\ \A id \in 1..MaxStoreReq : WF_vars(Save(id))

(***************************************************************************)
(* What the handlers make of one reply of the inference service (lines     *)
(* 318-337 and 694-700), for every short text over the characters JSON is  *)
(* written in and for longer replies of each kind.                         *)
(***************************************************************************)
MaxReplyLen == 3

ReplyAlphabet == {"{", "}", "[", "]", "\"", ":", ",", " ", "a", "1"}

ShortReplies ==
    UNION {[1..n -> ReplyAlphabet] : n \in 0..MaxReplyLen}

Quoted(s) == <<"\"">> \o s \o <<"\"">>

\* the text of a JSON object with one member
ObjectText(key, value) == <<"{">> \o Quoted(key) \o <<":">> \o value \o <<"}">>

FieldKeys ==
    {K_summary, K_key_findings, K_risks, K_recommendations, K_detailed_analysis}

FieldTexts ==
    {W_null, W_true, <<"1">>, Quoted(<<"a">>), Quoted(<<>>), <<"[", "]">>,
     <<"[", "1", "]">>, <<"[">> \o Quoted(<<"a">>) \o <<"]">>,
     <<"[">> \o Quoted(<<"a", "1">>) \o <<"]">>, <<"{", "}">>}

\* prose and broken JSON around the length the fallback summary is cut at
LongReplies ==
    {Rep("a", n) : n \in {SummaryLimit - 1, SummaryLimit, SummaryLimit + 1}}
        \cup {<<"{">> \o Rep("a", SummaryLimit + MaxReplyLen),
              <<"[", "1", ",">> \o Rep(" ", SummaryLimit)}

Replies ==
    ShortReplies \cup LongReplies \cup {W_null, W_true, W_false}
        \cup {ObjectText(k, v) : k \in FieldKeys, v \in FieldTexts}

NormalizeDocId == <<"T", "0", "0", "_", "a">>

InitNormalize ==
    /\ Started
    /\ NoPrompt
    /\ budget = 0
    /\ raw_reply \in Replies
    /\ normalized = [done |-> FALSE]

\* one reply through the single-category handlers and through batch_analysis
Normalize(lax) ==
    /\ ~normalized.done
    /\ normalized' =
           [done |-> TRUE, lax |-> lax,
            single |-> BuildResponse(NormalizeDocId, "contract", raw_reply, clock, lax),
            batch |-> BatchEntry(raw_reply)]
    /\ UNCHANGED <<serverVars, raw_reply, promptVars>>

NextNormalize == \E lax \in BOOLEAN : Normalize(lax)

SpecNormalize == InitNormalize /\ [][NextNormalize]_vars

(***************************************************************************)
(* generate_analysis_prompt on texts shorter than, as long as and longer   *)
(* than the text budget.  A text is a run of "a" with one "z" in it.       *)
(***************************************************************************)
MaxExtra == 2

TextLengths ==
    {0, 1, TextBudget - 1} \cup {TextBudget + k : k \in 0..MaxExtra}

MarkedText(n, m) == [i \in 1..n |-> IF i = m THEN "z" ELSE "a"]

PromptTexts ==
    {MarkedText(n, m) : n \in TextLengths,
                        m \in {0, 1, TextBudget} \cup {TextBudget + k : k \in 1..MaxExtra}}

\* labels of a single-category handler and of batch_analysis
PromptLabels == {PromptLabel["contract"], PromptLabel["ip"], "ip", "tax"}

PromptFocus == {<<"fees">>, DefaultFocus["tax"]}

InitPrompt ==
    /\ Started
    /\ NoReply
    /\ budget = 0
    /\ doc_text \in [analysis_type : PromptLabels, text : PromptTexts,
                      focus_areas : PromptFocus]
    /\ prompt = [done |-> FALSE]

BuildPrompt ==
    /\ ~prompt.done
    /\ prompt' = [done |-> TRUE,
                  text |-> GeneratePrompt(doc_text.analysis_type, doc_text.text,
                                          doc_text.focus_areas)]
    /\ UNCHANGED <<serverVars, normVars, doc_text>>

NextPrompt == BuildPrompt

SpecPrompt == InitPrompt /\ [][NextPrompt]_vars

(***************************************************************************)
(* upload_document alone: uploads of files that share a name or a stem,    *)
(* within one second and across seconds.                                   *)
(***************************************************************************)
MaxUploads == 3

\* a second text file, of other bytes than TxtFile
OtherTxtFile ==
    [kind |-> "text", utf8 |-> TRUE, text |-> <<>>, decoded |-> <<"y", "o">>,
     size |-> 3]

UploadFiles ==
    {<<<<"a", ".", "t", "x", "t">>, TxtFile>>,
     <<<<"a", ".", "t", "x", "t">>, OtherTxtFile>>,
     <<<<"a", ".", "b", ".", "t", "x", "t">>, OtherTxtFile>>,
     <<<<"a", ".", "P", "D", "F">>, PdfFile>>,
     <<<<"b", ".", "t", "x", "t">>, TxtFile>>}

InitUpload ==
    /\ Started
    /\ NoReply
    /\ NoPrompt
    /\ budget = MaxUploads

NextUpload ==
    \/ Tick
    \/ \E u \in UploadFiles : Upload(u[1], u[2])

SpecUpload == InitUpload /\ [][NextUpload]_vars

(***************************************************************************)
(* Two documents, one of whose names ends in the batch suffix, analysed    *)
(* by the single-category and by the batch endpoint.                       *)
(***************************************************************************)
MaxKeyReq == 4

KeyUploads ==
    {<<"a", ".", "t", "x", "t">>,
     <<"a">> \o BatchSuffix \o <<".", "t", "x", "t">>}

InitKeys ==
    /\ Started
    /\ NoReply
    /\ NoPrompt
    /\ budget = MaxKeyReq

NextKeys ==
    \/ Tick
    \/ \E filename \in KeyUploads : Upload(filename, TxtFile)
    \/ \E document_id \in StoredIds :
          Analyze("contract", document_id, StoreFileType, <<>>)
    \/ \E document_id \in StoredIds :
          Batch(document_id, StoreFileType, StoreBatchList)
    \/ \E id \in DOMAIN tasks : SaveOpen(id)
    \/ \E id \in DOMAIN tasks : SaveFlush(id)
    \/ \E id \in DOMAIN tasks : SaveClose(id)

SpecKeys == InitKeys /\ [][NextKeys]_vars

(***************************************************************************)
(* The claims.                                                             *)
(***************************************************************************)
\* the extensions the specification allows, as it writes them
SpecExtensions ==
    {<<".", "p", "d", "f">>, <<".", "d", "o", "c", "x">>, <<".", "d", "o", "c">>,
     <<".", "t", "x", "t">>}

\* the categories the specification knows, as it writes them
SpecCategories == {"contract", "compliance", "ip", "corporate", "labor", "tax"}

\* the step is a request handled by `op`
Handled(op) == nreq' = nreq + 1 /\ last'.op = op

\* C1: an upload whose lower-cased file name extension is none of .pdf,
\* .docx, .doc, .txt is answered 400 and writes nothing: the Document Store
\* is after the request what it was before it.
C1_UnsupportedUploadRejected ==
    [][(Handled("upload")
          /\ Lower(Suffix(last'.args.filename)) \notin SpecExtensions)
       => (last'.status = 400 /\ upload_dir' = upload_dir)]_vars

\* C1 happens: an upload of an unsupported extension was rejected while the
\* store already held a document
C1_Witness ==
    /\ last.op = "upload"
    /\ Lower(Suffix(last.args.filename)) \notin SpecExtensions
    /\ last.status = 400
    /\ upload_dir # <<>>

\* C2: an analysis request (single-category or batch) whose document
\* identifier is not the identifier of any stored document is answered 404,
\* makes no inference call and schedules no persistence.
C2_UnknownIdentifierNotFound ==
    (last.op \in {"analyze", "batch"} /\ last.args.document_id \notin StoredIds)
        => (last.status = 404 /\ last.calls = <<>> /\ ~last.scheduled)

\* the names of a batch request's list that are no category
Offending(analysis_types) ==
    {analysis_types[i] : i \in DOMAIN analysis_types} \ SpecCategories

\* the request computed nothing: no extraction, no inference call, no
\* persistence task
NothingComputed ==
    last.extracts = 0 /\ last.calls = <<>> /\ ~last.scheduled

\* C3 as stated: a batch request whose list holds a name that is no category
\* is answered 400 with a message naming every offending name, and nothing
\* is computed for it.
C3_InvalidCategoryRejected ==
    (last.op = "batch" /\ Offending(last.args.analysis_types) # {})
        => /\ last.status = 400
           /\ last.detail =
                  <<"Invalid analysis types: ", Offending(last.args.analysis_types)>>
           /\ NothingComputed

\* C3 amended: the lookup of the document comes first.  When no stored
\* file matches the identifier the request is answered 404, otherwise 400
\* with a message naming every offending name; nothing is computed either
\* way.
C3_InvalidCategoryRejectedAfterLookup ==
    (last.op = "batch" /\ Offending(last.args.analysis_types) # {})
        => /\ IF Glob(upload_dir, last.args.document_id) = {}
              THEN last.status = 404
              ELSE /\ last.status = 400
                   /\ last.detail = <<"Invalid analysis types: ",
                                      Offending(last.args.analysis_types)>>
           /\ NothingComputed

\* C3 happens: a batch request on a stored document, with a valid and an
\* invalid name in its list, was rejected
C3_Witness ==
    /\ last.op = "batch"
    /\ last.args.analysis_types = <<"contract", "nonsense">>
    /\ last.args.document_id \in StoredIds
    /\ last.status = 400

\* equality of two JSON values
RECURSIVE JEq(_, _)
JEq(a, b) ==
    /\ a.t = b.t
    /\ IF a.t = "list"
       THEN Len(a.v) = Len(b.v) /\ \A i \in DOMAIN a.v : JEq(a.v[i], b.v[i])
       ELSE IF a.t = "dict"
       THEN DOMAIN a.v = DOMAIN b.v /\ \A k \in DOMAIN a.v : JEq(a.v[k], b.v[k])
       ELSE a.v = b.v

\* the content fields of an AnalysisResult and the keys of a reply they
\* are read from
ContentKey ==
    [summary |-> K_summary, key_findings |-> K_key_findings, risks |-> K_risks,
     recommendations |-> K_recommendations,
     detailed_analysis |-> K_detailed_analysis]

\* C4: for the same raw reply, the entry batch analysis stores for a
\* category has the content fields of the result the single-category
\* endpoint returns, with the same values: the same defaults for missing
\* keys and the same fallback for an unparseable reply.
C4_BatchEntryMatchesSingle ==
    (normalized.done /\ normalized.single.status = 200)
        => /\ normalized.batch.t = "dict"
           /\ \A f \in DOMAIN ContentKey :
                 /\ ContentKey[f] \in DOMAIN normalized.batch.v
                 /\ JEq(normalized.batch.v[ContentKey[f]], normalized.single.body[f])

\* C5: after a document was analysed again under the same category and
\* every persistence task has run, the record under the document's key is
\* the newer result.  last is the newest analysis; a complete record of its
\* category under its key is a result of that category for that document.
C5_NewerResultWins ==
    (last.op = "analyze" /\ last.scheduled /\ tasks = <<>>)
        => LET file == ResultFile(last.args.document_id)
               stored == LoadJSONFile(results_dir[file])
           IN  /\ file \in DOMAIN results_dir
               /\ stored.ok
               /\ stored.val.analysis_type = last.body.analysis_type
                     => /\ stored.val.timestamp = last.body.timestamp
                        /\ JEq(stored.val.summary, last.body.summary)
                        /\ JEq(stored.val.detailed_analysis,
                               last.body.detailed_analysis)

\* C6: a reply that is not valid JSON is answered with a result whose
\* summary is the first 200 characters of the reply (the whole reply when
\* it is shorter) and whose detailed_analysis holds the reply verbatim under
\* raw_response; the request does not fail.
C6_InvalidReplyFallsBack ==
    (normalized.done /\ ~LoadsJSON(raw_reply).ok)
        => /\ normalized.single.status = 200
           /\ LET body == normalized.single.body
                  n == IF Len(raw_reply) < 200 THEN Len(raw_reply) ELSE 200
              IN  /\ body.summary.t = "str"
                  /\ Len(body.summary.v) = n
                  /\ \A i \in 1..n : body.summary.v[i] = raw_reply[i]
                  /\ body.detailed_analysis.t = "dict"
                  /\ K_raw_response \in DOMAIN body.detailed_analysis.v
                  /\ body.detailed_analysis.v[K_raw_response].t = "str"
                  /\ body.detailed_analysis.v[K_raw_response].v = raw_reply

\* C6 happens: a reply longer than 200 characters that is not JSON went
\* through the normalisation
C6_Witness ==
    /\ normalized.done
    /\ ~LoadsJSON(raw_reply).ok
    /\ Len(raw_reply) > 200
    /\ normalized.single.status = 200

\* C7: whatever the reply holds, the single-category analysis answers with
\* a result of status completed; the reply's content never makes the
\* request fail.
C7_AnyReplyCompletes ==
    normalized.done
        => /\ normalized.single.status = 200
           /\ normalized.single.body.status = "completed"

\* the request failed in text extraction: it named a stored document, ran
\* the extraction, sent no prompt and did not succeed
ExtractionFailed ==
    /\ last.op \in {"analyze", "batch"}
    /\ last.args.document_id \in StoredIds
    /\ last.extracts = 1
    /\ last.calls = <<>>
    /\ last.status # 200

\* the request failed in the inference call: it named a stored document
\* and the last call it made failed
InferenceFailed ==
    /\ last.op \in {"analyze", "batch"}
    /\ last.args.document_id \in StoredIds
    /\ last.calls # <<>>
    /\ ~last.args.apis[Len(last.calls)].ok

\* the request named an identifier no stored file matches
DocumentMissing ==
    /\ last.op \in {"analyze", "batch"}
    /\ Glob(upload_dir, last.args.document_id) = {}

\* the error detail is a message followed by the text of the cause
CarriesCause(messages) ==
    Len(last.detail) = 2 /\ last.detail[1] \in messages

ExtractionMessages ==
    {"Error reading PDF: ", "Error reading DOCX: ", "Error reading TXT: ",
     "Unsupported file type: "}

\* C8 as stated: a failure of text extraction and a failure of the
\* inference call are both answered 500 with the cause in the detail, a
\* missing document is answered 404.
C8_FailuresSurfaced ==
    /\ ExtractionFailed => (last.status = 500 /\ CarriesCause(ExtractionMessages))
    /\ InferenceFailed => (last.status = 500 /\ CarriesCause({"OpenAI API error: "}))
    /\ DocumentMissing => last.status = 404

\* C8 amended: a failure of text extraction is answered 400 with the cause
\* in the detail, a failure of the inference call 500 with the cause in the
\* detail, a missing document 404.
C8_FailuresSurfacedByKind ==
    /\ ExtractionFailed => (last.status = 400 /\ CarriesCause(ExtractionMessages))
    /\ InferenceFailed => (last.status = 500 /\ CarriesCause({"OpenAI API error: "}))
    /\ DocumentMissing => last.status = 404

\* C8 happens: the analysis of a stored document failed in text extraction
C8_Witness ==
    /\ ExtractionFailed
    /\ last.op = "analyze"
    /\ last.status = 400

\* C9: the prompt is the head of the template, then the first 5000
\* characters of the text (all of it when it is shorter), then the tail of
\* the template, and nothing of the text beyond position 5000: every text
\* that agrees with this one on the first 5000 characters gives this prompt.
C9_PromptEmbedsFirst5000 ==
    prompt.done
        => LET head == PromptHead(doc_text.analysis_type, doc_text.focus_areas)
               text == doc_text.text
               n == IF Len(text) < 5000 THEN Len(text) ELSE 5000
               h == Len(head)
           IN  /\ Len(prompt.text) = h + n + Len(PromptTail)
               /\ SubSeq(prompt.text, 1, h) = head
               /\ \A i \in 1..n : prompt.text[h + i] = text[i]
               /\ SubSeq(prompt.text, h + n + 1, Len(prompt.text)) = PromptTail
               /\ \A other \in PromptTexts :
                     (/\ Len(other) >= n
                      /\ Len(text) > 5000 \/ Len(other) = n
                      /\ \A i \in 1..n : other[i] = text[i])
                        => GeneratePrompt(doc_text.analysis_type, other,
                                          doc_text.focus_areas) = prompt.text

\* C9 happens: a prompt was built from a text longer than 5000 characters
\* whose character after position 5000 differs from the ones before
C9_Witness ==
    /\ prompt.done
    /\ Len(doc_text.text) > 5000
    /\ doc_text.text[5001] = "z"

\* C10: a retrieval answers 404 or 200, and a 200 carries a complete
\* record: every field of a single-category result or every field of a
\* batch result.
C10_RetrievalNeverPartial ==
    last.op = "results"
        => \/ last.status = 404
           \/ /\ last.status = 200
              /\ DOMAIN last.body \in
                     {{SingleFields[i] : i \in DOMAIN SingleFields},
                      {BatchFields[i] : i \in DOMAIN BatchFields}}

\* C11: a successful upload gets an identifier no stored document has and
\* a storage location that was free, and it leaves the bytes of every
\* document stored before it as they were.
C11_UploadNeverOverwrites ==
    [][(Handled("upload") /\ last'.status = 200)
       => /\ last'.body.document_id \notin StoredIds
          /\ DOMAIN upload_dir' # DOMAIN upload_dir
          /\ \A n \in DOMAIN upload_dir :
                n \in DOMAIN upload_dir' /\ upload_dir'[n] = upload_dir[n]]_vars

\* a result is a batch result
IsBatchResult(data) == data.analysis_type = "batch"

\* C12: a batch result and a single-category result are never persisted
\* under one key: two scheduled persistence tasks of which one holds a
\* batch result and the other a single-category result have different
\* keys, and no task is scheduled on the key of a stored record of the
\* other kind.
C12_BatchKeyDistinct ==
    /\ \A i, j \in DOMAIN tasks :
          IsBatchResult(tasks[i].data) # IsBatchResult(tasks[j].data)
              => tasks[i].key # tasks[j].key
    /\ \A i \in DOMAIN tasks :
          LET file == ResultFile(tasks[i].key)
          IN  (file \in DOMAIN results_dir /\ LoadJSONFile(results_dir[file]).ok)
                  => IsBatchResult(LoadJSONFile(results_dir[file]).val)
                         = IsBatchResult(tasks[i].data)

\* two result records are the same record
SameResult(a, b) ==
    /\ DOMAIN a = DOMAIN b
    /\ a.document_id = b.document_id
    /\ a.analysis_type = b.analysis_type
    /\ a.status = b.status
    /\ a.timestamp = b.timestamp
    /\ IF "analyses" \in DOMAIN a
       THEN /\ a.analysis_count = b.analysis_count
            /\ DOMAIN a.analyses = DOMAIN b.analyses
            /\ \A t \in DOMAIN a.analyses : JEq(a.analyses[t], b.analyses[t])
       ELSE \A f \in DOMAIN ContentKey : JEq(a[f], b[f])

\* the key a result is persisted under
KeyOf(data) ==
    IF IsBatchResult(data) THEN data.document_id \o BatchSuffix ELSE data.document_id

\* a persistence task for the result is scheduled and has not finished
Pending(data) == \E id \in DOMAIN tasks : SameResult(tasks[id].data, data)

\* a retrieval of the result's key returns the result
Retrievable(data) ==
    LET r == GetResult(results_dir, KeyOf(data))
    IN  r.status = 200 /\ SameResult(r.body, data)

\* the identifier an upload of StoreUpload started at time t is given
StoreDocId(t) == StrfTime(t) \o <<"_">> \o SplitFirst(StoreUpload[1])

\* when a document was uploaded and when it was analysed
StoreTimes == {t \in (0..MaxClock) \X (0..MaxClock) : t[1] <= t[2]}

\* the results of the successful single-category analyses (which the
\* validation mode does not change for the replies of ServerReplies)
StoreSingles ==
    [category \in StoreEndpoints, t \in StoreTimes, reply \in ServerReplies |->
        BuildResponse(StoreDocId(t[1]), category, reply, t[2], FALSE).body]

\* the results of the successful batch analyses of StoreBatchList
StoreBatches ==
    [t \in StoreTimes, reply \in ServerReplies |->
        BatchResult(StoreDocId(t[1]), StoreFileType, StoreBatchList, {<<>>}, TxtFile,
                    [i \in DOMAIN StoreBatchList |-> ApiReply(reply)], t[2]).resp.body]

\* the step is a successful analysis request
Analysed == (Handled("analyze") \/ Handled("batch")) /\ last'.status = 200

\* C13: a successful analysis request (single-category or batch) only
\* schedules the persistence write: the Result Store is after the request
\* what it was before it and the task is there, not started.  And when the
\* worker threads run the scheduled writes, every result whose write was
\* scheduled is eventually the record a retrieval of its key returns.
C13_DeferredPersistence ==
    /\ [][Analysed => /\ results_dir' = results_dir
                      /\ (nreq + 1) \in DOMAIN tasks'
                      /\ tasks'[nreq + 1].pos = -1]_vars
    /\ \A category \in StoreEndpoints, t \in StoreTimes, reply \in ServerReplies :
          Pending(StoreSingles[category, t, reply])
              ~> Retrievable(StoreSingles[category, t, reply])
    /\ \A t \in StoreTimes, reply \in ServerReplies :
          Pending(StoreBatches[t, reply]) ~> Retrievable(StoreBatches[t, reply])

\* C13 happens: the caller has the response of a second analysis of a
\* document, the write is scheduled and not started, and a retrieval of
\* the key returns the result stored before
C13_Witness ==
    /\ last.op = "analyze"
    /\ last.status = 200
    /\ nreq \in DOMAIN tasks
    /\ tasks[nreq].pos = -1
    /\ GetResult(results_dir, last.args.document_id).status = 200
    /\ ~Retrievable(last.body)

\* the step ends the persistence task id of a single-category result
Persisted(id) == id \notin DOMAIN tasks' /\ ~IsBatchResult(tasks[id].data)

\* the record stored under the key of task id is a result of another
\* category: that result's write has finished
OtherCategoryStored(id) ==
    LET r == GetResult(results_dir, tasks[id].key)
    IN  /\ r.status = 200
        /\ r.body.analysis_type \in StoreEndpoints \ {tasks[id].data.analysis_type}

\* C14: a single-category result is persisted under its document
\* identifier alone, whatever its category; and when the write of a result
\* finishes after the write of a result of another category for the same
\* document, the Result Store holds one record for the document, the
\* result written last, and no record under a name that is not made of a
\* stored document's identifier.
C14_KeyByDocumentAlone ==
    [][/\ (Handled("analyze") /\ last'.status = 200)
             => tasks'[nreq + 1].key = last'.args.document_id
       /\ \A id \in DOMAIN tasks :
             (Persisted(id) /\ OtherCategoryStored(id))
                 => LET r == GetResult(results_dir', tasks[id].data.document_id)
                    IN  /\ r.status = 200
                        /\ SameResult(r.body, tasks[id].data)
                        /\ \A f \in DOMAIN results_dir' :
                              \E d \in StoredIds :
                                  f \in {ResultFile(d), ResultFile(d \o BatchSuffix)}]_vars

\* C14 happens: a document was analysed under two categories, both writes
\* have finished, and the one record the store holds for it is a whole
\* result of the category analysed first: the later analysis is not
\* retrievable
C14_Witness ==
    /\ last.op = "analyze"
    /\ last.status = 200
    /\ tasks = <<>>
    /\ LET r == GetResult(results_dir, last.args.document_id)
       IN  /\ r.status = 200
           /\ r.body.analysis_type \in StoreEndpoints \ {last.body.analysis_type}
           /\ \E t \in StoreTimes, reply \in ServerReplies :
                 SameResult(r.body, StoreSingles[r.body.analysis_type, t, reply])

\* the step is an analysis request that failed
AnalysisFailed == (Handled("analyze") \/ Handled("batch")) /\ last'.status # 200

\* the calls an analysis request may make: one, or one per listed category
CallLimit(r) == IF r.op = "batch" THEN Len(r.args.analysis_types) ELSE 1

\* C15: an analysis request that fails schedules no persistence and leaves
\* the Result Store and the Document Store as they were; and no step is
\* tried again: the text is extracted at most once, no more inference
\* calls are made than categories were asked for, and no call follows a
\* call that failed.
C15_FailureLeavesNoTrace ==
    [][AnalysisFailed
       => /\ ~last'.scheduled
          /\ tasks' = tasks
          /\ results_dir' = results_dir
          /\ upload_dir' = upload_dir
          /\ last'.extracts <= 1
          /\ Len(last'.calls) <= CallLimit(last')
          /\ \A i \in 1..(Len(last'.calls) - 1) : last'.args.apis[i].ok]_vars

\* C15 happens: a batch request on a stored document failed in the
\* inference call of its second category after the first had succeeded,
\* and nothing is scheduled
C15_Witness ==
    /\ last.op = "batch"
    /\ last.status = 500
    /\ last.args.document_id \in StoredIds
    /\ Len(last.calls) = 2
    /\ last.args.apis[1].ok
    /\ ~last.args.apis[2].ok
    /\ tasks = <<>>
    /\ results_dir = <<>>

=============================================================================
